---- MODULE Spec2Model ----
(***************************************************************************)
(* Model of pkger/models.go: the identity, diff, summary and label-mapping *)
(* model of a package of desired buckets and labels.                       *)
(*                                                                         *)
(* Pointers are names: a *bucket is an element of Buckets and a *label an  *)
(* element of Labels; bkt and lbl are the heap.  A nil pointer (existing)  *)
(* or a nil map (mappings) is the empty sequence <<>>, a non-nil one is a   *)
(* one-element sequence holding the pointee.  A Go map is the set of its   *)
(* entries [key, val]; a []T slice is a sequence.                          *)
(***************************************************************************)
EXTENDS Integers, Sequences, FiniteSets, TLC

VARIABLES bkt, lbl, ret

vars == <<bkt, lbl, ret>>

(* ------------------------------ bounds -------------------------------- *)

\* influxdb.ID values range over 0..MaxID; 0 is the zero sentinel.
MaxID == 1
\* bucket.labels holds at most MaxLabels label pointers.
MaxLabels == 2

IDs == 0 .. MaxID

Buckets == {"b1", "b2"}
Labels == {"l1", "l2"}
NilLabel == "nil"

BucketNames == {"n1", "n2"}
LabelNames == {"x", "y"}
Descs == {"", "d1"}
Colors == {"", "c1"}
Retentions == {0, 1}

(* ------------------------------ kinds --------------------------------- *)

\* influxdb.BucketsResourceType, the one resource type getMappedResourceID
\* resolves, and one it does not.
BucketsResourceType == "buckets"
DashboardsResourceType == "dashboards"
ResourceTypes == {BucketsResourceType, DashboardsResourceType}

(* --------------------------- Go map helpers ---------------------------- *)

\* m[k] of a map[string]string: the zero value "" when the key is absent.
StrMapGet(m, k) == IF k \in DOMAIN m THEN m[k] ELSE ""

\* The zero labelMapVal, which indexing a map yields for an absent key.
ZeroMapVal == [exists |-> FALSE, v |-> [type |-> "nil", ptr |-> ""]]

\* The entries of a map field; ranging over or indexing a nil map behaves as
\* for an empty one.
Entries(mappings) == IF mappings = <<>> THEN {} ELSE mappings[1]

\* l.mappings[k] read: the value stored at k, or the zero value.
MapGet(mappings, k) ==
    IF \E e \in Entries(mappings) : e.key = k
    THEN (CHOOSE e \in Entries(mappings) : e.key = k).val
    ELSE ZeroMapVal

MapPutMerging(entries, k, val) == entries \cup {[key |-> k, val |-> val]}

\* m[k] = val on a non-nil map: the entry at k is replaced.
MapPut(entries, k, val) ==
    {e \in entries : e.key # k} \cup {[key |-> k, val |-> val]}

(* --------------------------- identity (4.1) ---------------------------- *)

bucketIDPlaceholderFirst(b) ==
    IF b.id # 0 THEN b.id
    ELSE IF b.existing # <<>> THEN b.existing[1].ID ELSE b.id

\* func (b *bucket) ID() influxdb.ID
bucketID(b) == IF b.existing # <<>> THEN b.existing[1].ID ELSE b.id

\* func (l *label) ID() influxdb.ID
labelID(l) == IF l.existing # <<>> THEN l.existing[1].ID ELSE l.id

(* ------------------------------ diff (4.3) ----------------------------- *)

\* func (d DiffBucket) IsNew() bool
DiffBucketIsNew(d) == d.ID = 0

\* func (d DiffLabel) IsNew() bool
DiffLabelIsNew(d) == d.ID = 0

newDiffBucketFromResource(b, i) ==
    [ID |-> bucketID(b), Name |-> b.Name,
     OldDesc |-> i.Description, NewDesc |-> b.Description,
     OldRetention |-> i.RetentionPeriod, NewRetention |-> b.RetentionPeriod]

newDiffBucketSwapped(b, i) ==
    [ID |-> i.ID, Name |-> b.Name,
     OldDesc |-> b.Description, NewDesc |-> i.Description,
     OldRetention |-> i.RetentionPeriod, NewRetention |-> b.RetentionPeriod]

\* func newDiffBucket(b *bucket, i influxdb.Bucket) DiffBucket
newDiffBucket(b, i) ==
    [ID |-> i.ID, Name |-> b.Name,
     OldDesc |-> i.Description, NewDesc |-> b.Description,
     OldRetention |-> i.RetentionPeriod, NewRetention |-> b.RetentionPeriod]

newDiffLabelFromResource(l, i) ==
    [ID |-> labelID(l), Name |-> l.Name,
     OldColor |-> StrMapGet(i.Properties, "color"), NewColor |-> l.Color,
     OldDesc |-> StrMapGet(i.Properties, "description"),
     NewDesc |-> l.Description]

\* func newDiffLabel(l *label, i influxdb.Label) DiffLabel
newDiffLabel(l, i) ==
    [ID |-> i.ID, Name |-> l.Name,
     OldColor |-> StrMapGet(i.Properties, "color"), NewColor |-> l.Color,
     OldDesc |-> StrMapGet(i.Properties, "description"),
     NewDesc |-> l.Description]

(* ----------------------------- summary (4.4) --------------------------- *)

\* func (l *label) properties() map[string]string
labelProperties(l) == [color |-> l.Color, description |-> l.Description]

\* The influxdb.Label that bucket.summarize and label.summarize build.
SummaryOfLabel(l) ==
    [ID |-> labelID(l), OrgID |-> l.OrgID, Name |-> l.Name,
     Properties |-> labelProperties(l)]

\* func (l *label) summarize() SummaryLabel
labelSummarize(l) == [Label |-> SummaryOfLabel(l)]

AssociationsFromSecond(ls) ==
    [j \in 1 .. (IF ls = <<>> THEN 0 ELSE Len(ls) - 1) |->
        SummaryOfLabel(lbl[ls[j + 1]])]

\* The loop of bucket.summarize: one appended influxdb.Label per element of
\* b.labels, in slice order.
Associations(ls) == [j \in 1 .. Len(ls) |-> SummaryOfLabel(lbl[ls[j]])]

\* func (b *bucket) summarize() SummaryBucket
bucketSummarize(b) ==
    [Bucket |-> [ID |-> bucketID(b), OrgID |-> b.OrgID, Name |-> b.Name,
                 Description |-> b.Description,
                 RetentionPeriod |-> b.RetentionPeriod],
     Associations |-> Associations(b.labels)]

(* ----------------------- label mapping index (4.2) --------------------- *)

\* func (l labelMapVal) bucket() (*bucket, bool)
labelMapValBucket(val) ==
    IF val.v.type = "nil" THEN [b |-> "", ok |-> FALSE]
    ELSE IF val.v.type = "*bucket" THEN [b |-> val.v.ptr, ok |-> TRUE]
    ELSE [b |-> "", ok |-> FALSE]

getMappedResourceIDAnyType(l, k) ==
    LET r == labelMapValBucket(MapGet(l.mappings, k))
    IN IF r.ok THEN bucketID(bkt[r.b]) ELSE 0

getMappedResourceIDPlaceholder(l, k) ==
    IF k.resType = BucketsResourceType
    THEN LET r == labelMapValBucket(MapGet(l.mappings, k))
         IN IF r.ok THEN bkt[r.b].id ELSE 0
    ELSE 0

MapIndexStoring(mappings, k) ==
    IF mappings = <<>> \/ \E e \in Entries(mappings) : e.key = k
    THEN mappings
    ELSE <<Entries(mappings) \cup {[key |-> k, val |-> ZeroMapVal]}>>

\* The map after l.mappings[k] is read: indexing a map stores nothing, also
\* for an absent key.
MapIndex(mappings, k) == mappings

\* func (l *label) getMappedResourceID(k labelMapKey) influxdb.ID
getMappedResourceID(l, k) ==
    IF k.resType = BucketsResourceType
    THEN LET r == labelMapValBucket(MapGet(l.mappings, k))
         IN IF r.ok THEN bucketID(bkt[r.b]) ELSE 0
    ELSE 0

SummaryOfMappingUnflagged(l, e) ==
    [exists |-> FALSE, ResourceName |-> e.key.name,
     LabelName |-> l.Name,
     LabelMapping |-> [LabelID |-> labelID(l),
                       ResourceID |-> getMappedResourceID(l, e.key),
                       ResourceType |-> e.key.resType]]

\* The SummaryLabelMapping built for one ranged-over entry.
SummaryOfMapping(l, e) ==
    [exists |-> e.val.exists, ResourceName |-> e.key.name,
     LabelName |-> l.Name,
     LabelMapping |-> [LabelID |-> labelID(l),
                       ResourceID |-> getMappedResourceID(l, e.key),
                       ResourceType |-> e.key.resType]]

\* The orders in which a range over the map may visit its entries: every
\* entry once, in any order.
RangeOrders(entries) ==
    {o \in [1 .. Cardinality(entries) -> entries] :
        \A i, j \in DOMAIN o : i # j => o[i] # o[j]}

\* func (l *label) mappingSummary() []SummaryLabelMapping, for the order in
\* which the range visits the entries.
mappingSummary(l, order) ==
    [i \in DOMAIN order |-> SummaryOfMapping(l, order[i])]

\* The key and the value setBucketMapping stores for bucket pointer b.
BucketKey(b) == [resType |-> BucketsResourceType, name |-> bkt[b].Name]
BucketVal(b, exists) ==
    [exists |-> exists, v |-> [type |-> "*bucket", ptr |-> b]]

\* func (l *label) setBucketMapping(b *bucket, exists bool), for a non-nil
\* receiver: the label after the call.
setBucketMapping(l, b, exists) ==
    [l EXCEPT !.mappings =
        <<MapPut(Entries(l.mappings), BucketKey(b), BucketVal(b, exists))>>]

(* ----------------------------- environment ----------------------------- *)

\* A freshly built bucket and label: no placeholder id, no platform
\* counterpart, no labels, no index.
NewBucket(org, name, desc, retention) ==
    [id |-> 0, OrgID |-> org, Description |-> desc, Name |-> name,
     RetentionPeriod |-> retention, labels |-> <<>>, existing |-> <<>>]

NewLabel(org, name, color, desc) ==
    [id |-> 0, OrgID |-> org, Name |-> name, Color |-> color,
     Description |-> desc, mappings |-> <<>>, existing |-> <<>>]

\* A pointer to a platform record; only its ID is ever read.
Existing == {<<>>} \cup {<<[ID |-> n]>> : n \in IDs}

\* The platform values handed to the diff builders, the zero value (no
\* match) among them.
PlatformBuckets ==
    {[ID |-> n, Description |-> a.d, RetentionPeriod |-> a.r] :
        n \in IDs, a \in {[d |-> "", r |-> 0], [d |-> "d1", r |-> 1]}}

PlatformLabels ==
    {[ID |-> n, Properties |-> p] :
        n \in IDs,
        p \in {<<>>, [color |-> "c1"],
               [color |-> "c1", description |-> "d1"],
               [color |-> "", description |-> ""]}}

ZeroBucket == [ID |-> 0, Description |-> "", RetentionPeriod |-> 0]
ZeroLabel == [ID |-> 0, Properties |-> <<>>]

MapKeys == [resType : ResourceTypes, name : BucketNames]

(* ------------------------- field assignments --------------------------- *)

\* b.id = n
AssignBucketID(b, n) ==
    /\ bkt' = [bkt EXCEPT ![b].id = n]
    /\ ret' = [op |-> "assign"]
    /\ UNCHANGED lbl

\* b.existing = e
AssignBucketExisting(b, e) ==
    /\ bkt' = [bkt EXCEPT ![b].existing = e]
    /\ ret' = [op |-> "assign"]
    /\ UNCHANGED lbl

\* l.id = n
AssignLabelID(l, n) ==
    /\ lbl' = [lbl EXCEPT ![l].id = n]
    /\ ret' = [op |-> "assign"]
    /\ UNCHANGED bkt

\* l.existing = e
AssignLabelExisting(l, e) ==
    /\ lbl' = [lbl EXCEPT ![l].existing = e]
    /\ ret' = [op |-> "assign"]
    /\ UNCHANGED bkt

\* b.labels = append(b.labels, l)
AppendBucketLabel(b, l) ==
    /\ Len(bkt[b].labels) < MaxLabels
    /\ bkt' = [bkt EXCEPT ![b].labels = Append(@, l)]
    /\ ret' = [op |-> "assign"]
    /\ UNCHANGED lbl

(* ------------------------------ operations ----------------------------- *)

BucketID(b) ==
    /\ ret' = [op |-> "bucket.ID", b |-> b, val |-> bucketID(bkt[b])]
    /\ UNCHANGED <<bkt, lbl>>

LabelID(l) ==
    /\ ret' = [op |-> "label.ID", l |-> l, val |-> labelID(lbl[l])]
    /\ UNCHANGED <<bkt, lbl>>

NewDiffBucket(b, i) ==
    /\ ret' = [op |-> "newDiffBucket", b |-> b, i |-> i,
               val |-> newDiffBucket(bkt[b], i)]
    /\ UNCHANGED <<bkt, lbl>>

NewDiffLabel(l, i) ==
    /\ ret' = [op |-> "newDiffLabel", l |-> l, i |-> i,
               val |-> newDiffLabel(lbl[l], i)]
    /\ UNCHANGED <<bkt, lbl>>

BucketSummarize(b) ==
    /\ ret' = [op |-> "bucket.summarize", b |-> b,
               val |-> bucketSummarize(bkt[b])]
    /\ UNCHANGED <<bkt, lbl>>

LabelSummarize(l) ==
    /\ ret' = [op |-> "label.summarize", l |-> l,
               val |-> labelSummarize(lbl[l])]
    /\ UNCHANGED <<bkt, lbl>>

\* getMappedResourceID indexes the map, which stores nothing.
GetMappedResourceID(l, k) ==
    /\ ret' = [op |-> "getMappedResourceID", l |-> l, k |-> k,
               val |-> getMappedResourceID(lbl[l], k)]
    /\ lbl' = [lbl EXCEPT ![l].mappings = MapIndex(@, k)]
    /\ UNCHANGED bkt

MappingSummary(l) ==
    /\ \E order \in RangeOrders(Entries(lbl[l].mappings)) :
          ret' = [op |-> "mappingSummary", l |-> l,
                  val |-> mappingSummary(lbl[l], order)]
    /\ UNCHANGED <<bkt, lbl>>

\* setBucketMapping on a nil receiver returns at once.
SetBucketMapping(l, b, exists) ==
    /\ ret' = [op |-> "setBucketMapping", l |-> l, b |-> b, exists |-> exists]
    /\ lbl' = IF l = NilLabel THEN lbl
              ELSE [lbl EXCEPT ![l] = setBucketMapping(lbl[l], b, exists)]
    /\ UNCHANGED bkt

(* ---------------------------- specifications --------------------------- *)

\* The package as loaded: two buckets, named alike or not, and two labels.
Init ==
    /\ \E n \in BucketNames :
          bkt = [b \in Buckets |->
                    IF b = "b1" THEN NewBucket(1, "n1", "", 0)
                    ELSE NewBucket(2, n, "d1", 1)]
    /\ lbl = [l \in Labels |->
                 IF l = "l1" THEN NewLabel(1, "x", "", "")
                 ELSE NewLabel(2, "y", "c1", "d1")]
    /\ ret = [op |-> "init"]

\* Where identity is not what a specification is about, the environment
\* assigns the identity of one bucket and one label only; every resource is
\* read.
AssignedBuckets == {"b1"}
AssignedLabels == {"l1"}
\* The label whose index is built; the other label's index is never created.
IndexedLabels == {"l1"}

\* Identity and diff: placeholder ids and platform counterparts are
\* assigned, ID() is asked and diff records are built.
NextIdentity ==
    \/ \E b \in Buckets, n \in IDs : AssignBucketID(b, n)
    \/ \E b \in Buckets, e \in Existing : AssignBucketExisting(b, e)
    \/ \E l \in AssignedLabels, n \in IDs : AssignLabelID(l, n)
    \/ \E l \in AssignedLabels, e \in Existing : AssignLabelExisting(l, e)
    \/ \E b \in Buckets : BucketID(b)
    \/ \E l \in Labels : LabelID(l)
    \/ \E b \in Buckets, i \in PlatformBuckets : NewDiffBucket(b, i)
    \/ \E l \in Labels, i \in PlatformLabels : NewDiffLabel(l, i)

SpecIdentity == Init /\ [][NextIdentity]_vars

\* Well-typed index contents that setBucketMapping does not produce: an
\* entry under another resource type, a nil value and a value that is no
\* *bucket.
ForeignEntries ==
    {[key |-> [resType |-> DashboardsResourceType, name |-> "n1"],
      val |-> [exists |-> TRUE, v |-> [type |-> "*bucket", ptr |-> "b1"]]],
     [key |-> [resType |-> BucketsResourceType, name |-> "n1"],
      val |-> [exists |-> TRUE, v |-> [type |-> "nil", ptr |-> ""]]],
     [key |-> [resType |-> BucketsResourceType, name |-> "n2"],
      val |-> [exists |-> TRUE, v |-> [type |-> "*label", ptr |-> "l2"]]]}

\* The index specification starts from an index not yet created or from one
\* holding the foreign entries.
InitIndex ==
    /\ \E n \in BucketNames :
          bkt = [b \in Buckets |->
                    IF b = "b1" THEN NewBucket(1, "n1", "", 0)
                    ELSE NewBucket(2, n, "d1", 1)]
    /\ \E m \in {<<>>, <<ForeignEntries>>} :
          lbl = [l \in Labels |->
                    IF l = "l1"
                    THEN [NewLabel(1, "x", "", "") EXCEPT !.mappings = m]
                    ELSE NewLabel(2, "y", "c1", "d1")]
    /\ ret = [op |-> "init"]

\* The label mapping index: associations are recorded, a mapped bucket's
\* identity is assigned, and the index is summarized and looked up.
NextIndex ==
    \/ \E l \in IndexedLabels \cup {NilLabel}, b \in Buckets, e \in BOOLEAN :
          SetBucketMapping(l, b, e)
    \/ \E b \in AssignedBuckets, n \in IDs : AssignBucketID(b, n)
    \/ \E b \in AssignedBuckets, e \in Existing : AssignBucketExisting(b, e)
    \/ \E l \in AssignedLabels, e \in Existing : AssignLabelExisting(l, e)
    \/ \E l \in Labels : MappingSummary(l)
    \/ \E l \in Labels, k \in MapKeys : GetMappedResourceID(l, k)

SpecIndex == InitIndex /\ [][NextIndex]_vars

\* Summaries: labels are attached to a bucket, associations with it are
\* recorded in the labels' indexes, the labels' identities are assigned, and
\* buckets and labels are summarized.
NextSummary ==
    \/ \E b \in AssignedBuckets, l \in Labels : AppendBucketLabel(b, l)
    \/ \E l \in Labels, b \in AssignedBuckets, e \in BOOLEAN :
          SetBucketMapping(l, b, e)
    \/ \E l \in Labels, n \in IDs : AssignLabelID(l, n)
    \/ \E l \in Labels, e \in Existing : AssignLabelExisting(l, e)
    \/ \E b \in Buckets : BucketSummarize(b)
    \/ \E l \in Labels : LabelSummarize(l)

SpecSummary == Init /\ [][NextSummary]_vars

\* Reads between writes: every read operation, interleaved with
\* setBucketMapping and with labels being attached to a bucket.
NextReads ==
    \/ \E l \in IndexedLabels \cup {NilLabel}, b \in Buckets, e \in BOOLEAN :
          SetBucketMapping(l, b, e)
    \/ \E b \in AssignedBuckets, l \in Labels : AppendBucketLabel(b, l)
    \/ \E b \in Buckets : BucketSummarize(b)
    \/ \E l \in Labels : LabelSummarize(l)
    \/ \E l \in Labels : MappingSummary(l)
    \/ \E l \in Labels, k \in MapKeys : GetMappedResourceID(l, k)
    \/ \E b \in Buckets, i \in PlatformBuckets : NewDiffBucket(b, i)
    \/ \E l \in Labels, i \in PlatformLabels : NewDiffLabel(l, i)

SpecReads == InitIndex /\ [][NextReads]_vars

Spec == SpecIdentity

(* ------------------------------- claims -------------------------------- *)

\* C1: ID() of a bucket or label with a platform counterpart is the
\* counterpart's identity whatever the placeholder id is; without a
\* counterpart it is the placeholder id.
C1_CounterpartIdentityWins ==
    /\ ret.op = "bucket.ID" =>
          LET b == bkt[ret.b]
          IN /\ b.existing # <<>> => ret.val = b.existing[1].ID
             /\ b.existing = <<>> => ret.val = b.id
    /\ ret.op = "label.ID" =>
          LET l == lbl[ret.l]
          IN /\ l.existing # <<>> => ret.val = l.existing[1].ID
             /\ l.existing = <<>> => ret.val = l.id

\* ID() was asked of a bucket whose non-zero placeholder differs from its
\* counterpart's identity.
C1_Witness ==
    /\ ret.op = "bucket.ID"
    /\ bkt[ret.b].existing # <<>>
    /\ bkt[ret.b].id # 0
    /\ bkt[ret.b].id # bkt[ret.b].existing[1].ID
    /\ ret.val = bkt[ret.b].existing[1].ID

\* C2 as stated: the diff record of a bucket or label without a platform
\* counterpart is new and its ID() is the placeholder id, for every
\* placeholder id.
C2_NewWithoutCounterpart ==
    /\ (ret.op = "newDiffBucket" /\ bkt[ret.b].existing = <<>>) =>
          /\ DiffBucketIsNew(ret.val)
          /\ bucketID(bkt[ret.b]) = bkt[ret.b].id
    /\ (ret.op = "newDiffLabel" /\ lbl[ret.l].existing = <<>>) =>
          /\ DiffLabelIsNew(ret.val)
          /\ labelID(lbl[ret.l]) = lbl[ret.l].id

\* C2 amended: for a bucket or label without a platform counterpart, ID() is
\* the placeholder id, and a diff record built for it with a platform value
\* of identity zero (no match) is new, for every placeholder id; a diff
\* record built with a platform value of non-zero identity is not new.
C2_NewWhenBuiltWithoutMatch ==
    /\ (ret.op = "newDiffBucket" /\ bkt[ret.b].existing = <<>>) =>
          /\ bucketID(bkt[ret.b]) = bkt[ret.b].id
          /\ ret.i.ID = 0 => DiffBucketIsNew(ret.val)
          /\ ret.i.ID # 0 => ~DiffBucketIsNew(ret.val)
    /\ (ret.op = "newDiffLabel" /\ lbl[ret.l].existing = <<>>) =>
          /\ labelID(lbl[ret.l]) = lbl[ret.l].id
          /\ ret.i.ID = 0 => DiffLabelIsNew(ret.val)
          /\ ret.i.ID # 0 => ~DiffLabelIsNew(ret.val)
    /\ ret.op = "bucket.ID" =>
          (bkt[ret.b].existing = <<>> => ret.val = bkt[ret.b].id)
    /\ ret.op = "label.ID" =>
          (lbl[ret.l].existing = <<>> => ret.val = lbl[ret.l].id)

\* A diff record was built with no platform match for a bucket that has no
\* counterpart and a non-zero placeholder id, and it is new.
C2_Witness ==
    /\ ret.op = "newDiffBucket"
    /\ bkt[ret.b].existing = <<>>
    /\ bkt[ret.b].id # 0
    /\ ret.i = ZeroBucket
    /\ DiffBucketIsNew(ret.val)

\* C3 as stated: the identity stored in a diff record is the desired
\* resource's effective identity ID().
C3_DiffIdentityIsEffective ==
    /\ ret.op = "newDiffBucket" => ret.val.ID = bucketID(bkt[ret.b])
    /\ ret.op = "newDiffLabel" => ret.val.ID = labelID(lbl[ret.l])

\* C3 amended: the identity stored in a diff record is the identity of the
\* platform value passed to the builder, so IsNew() is true exactly when
\* that identity is zero; it equals the desired resource's ID() whenever the
\* resource's counterpart reference carries the same identity.
C3_DiffIdentityIsPlatform ==
    /\ ret.op = "newDiffBucket" =>
          /\ ret.val.ID = ret.i.ID
          /\ DiffBucketIsNew(ret.val) <=> ret.i.ID = 0
          /\ (bkt[ret.b].existing # <<>> /\
              bkt[ret.b].existing[1].ID = ret.i.ID) =>
                 ret.val.ID = bucketID(bkt[ret.b])
    /\ ret.op = "newDiffLabel" =>
          /\ ret.val.ID = ret.i.ID
          /\ DiffLabelIsNew(ret.val) <=> ret.i.ID = 0
          /\ (lbl[ret.l].existing # <<>> /\
              lbl[ret.l].existing[1].ID = ret.i.ID) =>
                 ret.val.ID = labelID(lbl[ret.l])

\* A label diff was built with the platform value the label's counterpart
\* reference carries, its placeholder id being another value.
C3_Witness ==
    /\ ret.op = "newDiffLabel"
    /\ lbl[ret.l].existing # <<>>
    /\ lbl[ret.l].existing[1].ID = ret.i.ID
    /\ ret.i.ID # 0
    /\ lbl[ret.l].id # ret.i.ID
    /\ ret.val.ID = labelID(lbl[ret.l])

\* C8: a diff record reports both sides of every mutable attribute: the old
\* side is the platform value (empty or zero for the zero platform value),
\* the new side and the name are the desired resource's, and every field is
\* filled in whether or not old and new are equal.
C8_DiffReportsBothSides ==
    /\ ret.op = "newDiffBucket" =>
          LET b == bkt[ret.b]
              d == ret.val
          IN /\ DOMAIN d = {"ID", "Name", "OldDesc", "NewDesc",
                            "OldRetention", "NewRetention"}
             /\ d.Name = b.Name
             /\ d.OldDesc = ret.i.Description
             /\ d.NewDesc = b.Description
             /\ d.OldRetention = ret.i.RetentionPeriod
             /\ d.NewRetention = b.RetentionPeriod
             /\ ret.i = ZeroBucket => (d.OldDesc = "" /\ d.OldRetention = 0)
    /\ ret.op = "newDiffLabel" =>
          LET l == lbl[ret.l]
              d == ret.val
              props == ret.i.Properties
          IN /\ DOMAIN d = {"ID", "Name", "OldColor", "NewColor",
                            "OldDesc", "NewDesc"}
             /\ d.Name = l.Name
             /\ d.OldColor =
                   IF "color" \in DOMAIN props THEN props.color ELSE ""
             /\ d.NewColor = l.Color
             /\ d.OldDesc =
                   IF "description" \in DOMAIN props
                   THEN props.description ELSE ""
             /\ d.NewDesc = l.Description
             /\ ret.i = ZeroLabel => (d.OldColor = "" /\ d.OldDesc = "")

\* A bucket diff was built whose old and new sides are equal and not empty.
C8_Witness ==
    /\ ret.op = "newDiffBucket"
    /\ ret.val.OldDesc = ret.val.NewDesc
    /\ ret.val.OldDesc # ""
    /\ ret.val.OldRetention = ret.val.NewRetention
    /\ ret.val.OldRetention # 0

\* The labels referencing bucket b: those b.labels holds, which is what
\* summarize ranges over.
ReferencingLabels(b) == {b.labels[j] : j \in 1 .. Len(b.labels)}

\* The labels whose index holds an association with the bucket at pointer p.
IndexedOn(p) ==
    {l \in Labels :
        \E e \in Entries(lbl[l].mappings) :
           e.val.v = [type |-> "*bucket", ptr |-> p]}

\* C7 as stated: bucket.summarize produces exactly one association entry
\* per label referencing the bucket, none missing and none twice (and none
\* for a label that does not reference it), each carrying the label's ID(),
\* name and a property map with exactly the keys color and description.
C7_ExactlyOnePerLabel ==
    ret.op = "bucket.summarize" =>
       LET as == ret.val.Associations
       IN \A l \in Labels :
             LET mine == {j \in 1 .. Len(as) : as[j].Name = lbl[l].Name}
             IN /\ Cardinality(mine) =
                      (IF l \in ReferencingLabels(bkt[ret.b]) THEN 1 ELSE 0)
                /\ \A j \in mine :
                      /\ as[j].ID = labelID(lbl[l])
                      /\ DOMAIN as[j].Properties = {"color", "description"}

\* C7 amended: bucket.summarize produces exactly one association entry per
\* element of b.labels, in slice order, so a label has as many entries as
\* the slice holds it: one when held once, two when held twice, and none
\* when it is not in the slice, whatever its index records through
\* setBucketMapping; each entry carries that label's ID(), name and a
\* property map with exactly the keys color and description, empty values
\* included.
C7_OneAssociationPerElement ==
    ret.op = "bucket.summarize" =>
       LET ls == bkt[ret.b].labels
           as == ret.val.Associations
       IN /\ Len(as) = Len(ls)
          /\ \A j \in 1 .. Len(ls) :
                LET l == lbl[ls[j]]
                IN /\ as[j].ID =
                         (IF l.existing # <<>> THEN l.existing[1].ID
                          ELSE l.id)
                   /\ as[j].Name = l.Name
                   /\ DOMAIN as[j].Properties = {"color", "description"}
                   /\ as[j].Properties["color"] = l.Color
                   /\ as[j].Properties["description"] = l.Description
          /\ \A l \in Labels :
                Cardinality({j \in 1 .. Len(as) : as[j].Name = lbl[l].Name}) =
                Cardinality({j \in 1 .. Len(ls) : ls[j] = l})

\* A bucket was summarized whose slice holds one label twice, that label
\* having empty color and description and a platform counterpart of non-zero
\* identity: it has two entries, and the other label, whose index records an
\* association with the bucket but which the slice does not hold, has none.
C7_Witness ==
    /\ ret.op = "bucket.summarize"
    /\ bkt[ret.b].labels = <<"l1", "l1">>
    /\ lbl["l1"].existing # <<>>
    /\ "l1" \in IndexedOn(ret.b)
    /\ "l2" \in IndexedOn(ret.b)
    /\ Len(ret.val.Associations) = 2
    /\ \A j \in 1 .. 2 :
          /\ ret.val.Associations[j].Name = lbl["l1"].Name
          /\ ret.val.Associations[j].Properties["color"] = ""
          /\ ret.val.Associations[j].Properties["description"] = ""
          /\ ret.val.Associations[j].ID # 0

\* The entries of label l's index stored at key k.
EntriesAt(l, k) == {e \in Entries(l.mappings) : e.key = k}

\* C4: every setBucketMapping call on a label leaves its index created, with
\* exactly one entry at the key (bucket kind, the bucket's name), carrying
\* the bucket reference and exists flag of that call; the entries at other
\* keys, and every other label, are as before; no key ever holds two
\* entries, and a call on a nil label changes nothing.
C4_LastWriteWins ==
    [][ret'.op = "setBucketMapping" =>
          IF ret'.l = NilLabel
          THEN lbl' = lbl /\ bkt' = bkt
          ELSE LET k == [resType |-> BucketsResourceType,
                         name |-> bkt[ret'.b].Name]
                   before == lbl[ret'.l]
                   after == lbl'[ret'.l]
               IN /\ after.mappings # <<>>
                  /\ EntriesAt(after, k) =
                        {[key |-> k,
                          val |-> [exists |-> ret'.exists,
                                   v |-> [type |-> "*bucket",
                                          ptr |-> ret'.b]]]}
                  /\ Entries(after.mappings) \ EntriesAt(after, k) =
                        Entries(before.mappings) \ EntriesAt(before, k)
                  /\ \A q \in MapKeys : Cardinality(EntriesAt(after, q)) <= 1
                  /\ after = [before EXCEPT !.mappings = after.mappings]
                  /\ \A o \in Labels \ {ret'.l} : lbl'[o] = lbl[o]
                  /\ bkt' = bkt]_vars

\* A second association was recorded on a label whose index started out not
\* created: the earlier entry, at another key, is kept beside the new one.
C4_Witness ==
    /\ ret.op = "setBucketMapping"
    /\ ret.l = "l1"
    /\ ret.b = "b2"
    /\ ret.exists
    /\ Entries(lbl["l1"].mappings) =
          {[key |-> [resType |-> BucketsResourceType, name |-> "n1"],
            val |-> [exists |-> FALSE, v |-> [type |-> "*bucket", ptr |-> "b1"]]],
           [key |-> [resType |-> BucketsResourceType, name |-> "n2"],
            val |-> [exists |-> TRUE, v |-> [type |-> "*bucket", ptr |-> "b2"]]]}

\* C5: mappingSummary returns one record per key of the label's index (none
\* for an index never created): as many records as keys, each key named by
\* exactly one record, whose exists flag is the one stored at that key and
\* whose LabelName and LabelID are the label's name and ID().
C5_OneRecordPerKey ==
    ret.op = "mappingSummary" =>
       LET l == lbl[ret.l]
           keys == {e.key : e \in Entries(l.mappings)}
           recs == ret.val
       IN /\ Len(recs) = Cardinality(keys)
          /\ \A k \in keys :
                \E j \in 1 .. Len(recs) :
                   /\ recs[j].ResourceName = k.name
                   /\ recs[j].LabelMapping.ResourceType = k.resType
                   /\ \A e \in EntriesAt(l, k) : recs[j].exists = e.val.exists
                   /\ \A i \in 1 .. Len(recs) :
                         (recs[i].ResourceName = k.name /\
                          recs[i].LabelMapping.ResourceType = k.resType)
                            => i = j
          /\ \A j \in 1 .. Len(recs) :
                /\ recs[j].LabelName = l.Name
                /\ recs[j].LabelMapping.LabelID =
                      (IF l.existing # <<>> THEN l.existing[1].ID ELSE l.id)

\* A label with a counterpart of non-zero identity and two associations of
\* different exists flags was summarized.
C5_Witness ==
    /\ ret.op = "mappingSummary"
    /\ Len(ret.val) = 2
    /\ ret.val[1].exists # ret.val[2].exists
    /\ ret.val[1].LabelMapping.LabelID # 0
    /\ lbl[ret.l].existing # <<>>

\* C6: getMappedResourceID always returns an identity, and returns zero for
\* a key of another resource type even when an entry exists there, for a key
\* with no entry, and for an entry that references no bucket; for a
\* bucket-type key whose entry references a bucket it returns that bucket's
\* ID().
C6_SoftFailsToZero ==
    ret.op = "getMappedResourceID" =>
       LET l == lbl[ret.l]
           k == ret.k
           at == EntriesAt(l, k)
       IN /\ ret.val \in IDs
          /\ k.resType # BucketsResourceType => ret.val = 0
          /\ at = {} => ret.val = 0
          /\ \A e \in at :
                IF k.resType = BucketsResourceType /\ e.val.v.type = "*bucket"
                THEN LET b == bkt[e.val.v.ptr]
                     IN ret.val = (IF b.existing # <<>> THEN b.existing[1].ID
                                   ELSE b.id)
                ELSE ret.val = 0

\* A key of another resource type was looked up where an entry references a
\* bucket of non-zero identity, and zero came back.
C6_Witness ==
    /\ ret.op = "getMappedResourceID"
    /\ ret.k.resType = DashboardsResourceType
    /\ \E e \in EntriesAt(lbl[ret.l], ret.k) :
          /\ e.val.v.type = "*bucket"
          /\ bucketID(bkt[e.val.v.ptr]) # 0
    /\ ret.val = 0

\* The read operations.
ReadOps ==
    {"bucket.summarize", "label.summarize", "mappingSummary",
     "getMappedResourceID", "newDiffBucket", "newDiffLabel"}

\* C9: no read operation changes a bucket, a label or a label's index, a
\* lookup of a key with no entry included.
C9_ReadsChangeNothing ==
    [][ret'.op \in ReadOps => (bkt' = bkt /\ lbl' = lbl)]_vars

\* A key with no entry was looked up in an index that holds an entry, and
\* the index still has no entry at that key.
C9_Witness ==
    /\ ret.op = "getMappedResourceID"
    /\ Entries(lbl[ret.l].mappings) # {}
    /\ EntriesAt(lbl[ret.l], ret.k) = {}
    /\ ret.val = 0

\* C10: every record of a mapping summary carries the ID() that the
\* referenced bucket has when mappingSummary is called, whatever identity it
\* had when the association was recorded; the ResourceID is zero for a
\* mapped bucket that is still new and for an entry that does not resolve.
C10_ResolvedAtSummaryTime ==
    ret.op = "mappingSummary" =>
       LET l == lbl[ret.l]
       IN \A j \in 1 .. Len(ret.val) :
             LET k == [resType |-> ret.val[j].LabelMapping.ResourceType,
                       name |-> ret.val[j].ResourceName]
             IN \A e \in EntriesAt(l, k) :
                   IF k.resType = BucketsResourceType /\
                      e.val.v.type = "*bucket"
                   THEN LET b == bkt[e.val.v.ptr]
                        IN ret.val[j].LabelMapping.ResourceID =
                              (IF b.existing # <<>> THEN b.existing[1].ID
                               ELSE b.id)
                   ELSE ret.val[j].LabelMapping.ResourceID = 0

\* A summary reports the counterpart identity of a mapped bucket whose
\* placeholder id is another value, beside a zero for a mapped bucket that
\* is still new.
C10_Witness ==
    /\ ret.op = "mappingSummary"
    /\ \E i, j \in 1 .. Len(ret.val) :
          /\ bkt["b1"].existing # <<>>
          /\ ret.val[i].LabelMapping.ResourceID # 0
          /\ ret.val[i].LabelMapping.ResourceID = bkt["b1"].existing[1].ID
          /\ bkt["b1"].id # bkt["b1"].existing[1].ID
          /\ ret.val[j].LabelMapping.ResourceID = 0
          /\ ret.val[j].LabelMapping.ResourceType = BucketsResourceType
          /\ MapGet(lbl[ret.l].mappings,
                    [resType |-> BucketsResourceType,
                     name |-> ret.val[j].ResourceName]).v.ptr = "b2"

====
